---------------------------- MODULE Spec2Model ----------------------------
(***************************************************************************)
(* Model of hyperdbg's i8042 keyboard front end (keyboard.c): the bounded  *)
(* busy-wait port I/O, the keystroke poller with its "unget" replay, the   *)
(* scancode translator with its modifier latches, the mouse toggle and     *)
(* KeyboardInit.                                                           *)
(*                                                                         *)
(* Two specifications share the variables:                                 *)
(*   Spec       the port-level program: every loop iteration of            *)
(*              KeyboardReadKeystroke and i8042WriteKeyboardData is one    *)
(*              step, the status register answers nondeterministically;    *)
(*   SpecXlate  the translator: KeyboardScancodeToKeycode on every byte    *)
(*              0..255, over a family of scancode tables, with             *)
(*              KeyboardInit.                                              *)
(***************************************************************************)
EXTENDS Integers, Sequences, FiniteSets, TLC

VARIABLES
    snap,             \* history: a direct i8042ReadKeyboardData call, its port reads
    keyboard_status,  \* the global KEYBOARD_STATUS: lctrl, lshift, rshift, lalt
    mapId,            \* which table init_scancodes_map loads into scancodes_map
    pc,               \* control position of the single execution context
    op,               \* the exported operation in progress / last completed
    unget,            \* KeyboardReadKeystroke's argument
    enabled,          \* KeyboardSetMouse's argument
    counter,          \* KeyboardReadKeystroke's local ULONG counter
    scancode,         \* KeyboardReadKeystroke's local scancode
    pcOut,            \* the caller's *pc (byte output)
    pisMouse,         \* the caller's *pisMouse (mouse flag output)
    ret,              \* return value of the last completed exported operation
    attempts,         \* history: i8042ReadKeyboardData calls of the polling loop
    stalls,           \* history: KeStallExecutionProcessor calls of the polling loop
    allEmpty,         \* history: every poll so far saw output-buffer-full clear
    got,              \* history: byte and flag of the successful reader attempt
    w,                \* i8042WriteKeyboardData's arguments (addr, data)
    wcounter,         \* i8042WriteKeyboardData's local ULONG counter
    wstalls,          \* history: stalls of the write call in progress
    wAllFull,         \* history: every status read of the write call saw IBF set
    wrote,            \* history: the write call in progress did WRITE_PORT_UCHAR
    wok,              \* i8042WriteKeyboardData's return value (at its return)
    calls,            \* history: write calls of the current operation, in order
    writes,           \* history: WRITE_PORT_UCHAR(port, byte) done by the operation
    arg_c,            \* KeyboardScancodeToKeycode's argument
    keycode,          \* KeyboardScancodeToKeycode's return value
    prev_status,      \* history: keyboard_status before the last exported operation
    last_press        \* history: the preceding translate call, when it was the press
                      \* of the modifier the last translate call releases

vars == << snap, keyboard_status, mapId, pc, op, unget, enabled, counter,
           scancode, pcOut, pisMouse, ret, attempts, stalls, allEmpty, got,
           w, wcounter, wstalls, wAllFull, wrote, wok, calls, writes,
           arg_c, keycode, prev_status, last_press >>

-----------------------------------------------------------------------------
(* Bounds of the model *)

\* number of scancode tables the translator is checked against
NumMaps == 2

-----------------------------------------------------------------------------
(* Program constants *)

POLL_STATUS_ITERATIONS == 12000

KEYB_STATUS_OBUFFER_FULL == 1
KEYB_STATUS_IBUFFER_FULL == 2
KEYB_STATUS_TRANSMIT_TIMEOUT == 32
KEYB_STATUS_PARITY_ERROR == 128

KEYB_COMMAND_WRITE_OUTPUT == 210
KEYB_COMMAND_DISABLE_KEYBOARD == 173
KEYB_COMMAND_ENABLE_KEYBOARD == 174
KEYB_COMMAND_DISABLE_MOUSE == 167
KEYB_COMMAND_ENABLE_MOUSE == 168

SCANCODE_RELEASE_FLAG == 128

\* port 64h: status on read, command on write; port 60h: data
KEYB_REGISTER_STATUS == 100
KEYB_REGISTER_COMMAND == 100
KEYB_REGISTER_DATA == 96

STATUS_SUCCESS == "STATUS_SUCCESS"
STATUS_UNSUCCESSFUL == "STATUS_UNSUCCESSFUL"

Byte == 0..255

\* a return value not yet produced
Untouched == "untouched"

\* content of a byte the code has not written (a value outside 0..255)
NoByte == 0 - 1

\* content of the caller's BOOLEAN the code has not written; << b >> once
\* b has been written to it
NoFlag == << >>

NoRead == [byte |-> NoByte, mouse |-> FALSE]

NoPress == [c |-> NoByte, ret |-> NoByte]

NoCall == [addr |-> NoByte, data |-> NoByte]

NoSnapshot == [status |-> NoByte, data |-> NoByte, mouse0 |-> NoFlag, reads |-> << >>]

-----------------------------------------------------------------------------
(* Bit tests on a UCHAR; mask is a single bit *)

TestBit(b, mask) == (b \div mask) % 2 = 1

\* c & ~mask
ClearBit(b, mask) == IF TestBit(b, mask) THEN b - mask ELSE b

IS_SCANCODE_RELEASE(c) == TestBit(c, SCANCODE_RELEASE_FLAG)

-----------------------------------------------------------------------------
(* The scancode table and the case-fold utility (scancode.h, vmmstring.h) *)

\* table 1: the US set-1 digit row and letter rows, 0 elsewhere
USMap ==
    [c \in Byte |->
        CASE c \in 2..10  -> 47 + c      \* 0x02..0x0a -> '1'..'9'
          [] c = 11       -> 48          \* 0x0b -> '0'
          [] c = 16 -> 113 [] c = 17 -> 119 [] c = 18 -> 101 [] c = 19 -> 114
          [] c = 20 -> 116 [] c = 21 -> 121 [] c = 22 -> 117 [] c = 23 -> 105
          [] c = 24 -> 111 [] c = 25 -> 112
          [] c = 30 -> 97  [] c = 31 -> 115 [] c = 32 -> 100 [] c = 33 -> 102
          [] c = 34 -> 103 [] c = 35 -> 104 [] c = 36 -> 106 [] c = 37 -> 107
          [] c = 38 -> 108
          [] c = 44 -> 122 [] c = 45 -> 120 [] c = 46 -> 99  [] c = 47 -> 118
          [] c = 48 -> 98  [] c = 49 -> 110 [] c = 50 -> 109
          [] c = 57 -> 32
          [] OTHER -> 0]

\* tables 2, 3, ...: every byte mapped, so that each scancode meets the
\* characters around and outside the digit and letter ranges
Table(id) ==
    IF id = 1 THEN USMap
    ELSE [c \in Byte |-> (c + 45 * (id - 1)) % 256]

vmm_toupper(ch) == IF ch > 96 /\ ch < 123 THEN ch - 32 ELSE ch

\* the global table: read-only once loaded, so it is kept as the table's number
scancodes_map == Table(mapId)

-----------------------------------------------------------------------------
(* KeyboardScancodeToKeycode *)

NoLatch == [lctrl |-> FALSE, lshift |-> FALSE, rshift |-> FALSE, lalt |-> FALSE]

\* a modifier latch case written to the wrong field (right shift sets lshift)
ModifierSwitchWrongField(c, ks) ==
    LET b == ClearBit(c, SCANCODE_RELEASE_FLAG)
        v == IF IS_SCANCODE_RELEASE(c) THEN FALSE ELSE TRUE
    IN  CASE b = 29 -> [handled |-> TRUE, ks |-> [ks EXCEPT !.lctrl = v]]
          [] b = 42 -> [handled |-> TRUE, ks |-> [ks EXCEPT !.lshift = v]]
          [] b = 54 -> [handled |-> TRUE, ks |-> [ks EXCEPT !.lshift = v]]
          [] b = 56 -> [handled |-> TRUE, ks |-> [ks EXCEPT !.lalt = v]]
          [] OTHER  -> [handled |-> FALSE, ks |-> ks]

\* the default case of the first switch clearing a latch on any key release
ModifierSwitchDefaultClears(c, ks) ==
    LET b == ClearBit(c, SCANCODE_RELEASE_FLAG)
        v == IF IS_SCANCODE_RELEASE(c) THEN FALSE ELSE TRUE
    IN  CASE b = 29 -> [handled |-> TRUE, ks |-> [ks EXCEPT !.lctrl = v]]
          [] b = 42 -> [handled |-> TRUE, ks |-> [ks EXCEPT !.lshift = v]]
          [] b = 54 -> [handled |-> TRUE, ks |-> [ks EXCEPT !.rshift = v]]
          [] b = 56 -> [handled |-> TRUE, ks |-> [ks EXCEPT !.lalt = v]]
          [] OTHER  -> [handled |-> FALSE,
                        ks |-> IF IS_SCANCODE_RELEASE(c)
                               THEN [ks EXCEPT !.lshift = FALSE] ELSE ks]

\* the default case of the first switch clearing a latch on any key press
ModifierSwitchPressClears(c, ks) ==
    LET b == ClearBit(c, SCANCODE_RELEASE_FLAG)
        v == IF IS_SCANCODE_RELEASE(c) THEN FALSE ELSE TRUE
    IN  CASE b = 29 -> [handled |-> TRUE, ks |-> [ks EXCEPT !.lctrl = v]]
          [] b = 42 -> [handled |-> TRUE, ks |-> [ks EXCEPT !.lshift = v]]
          [] b = 54 -> [handled |-> TRUE, ks |-> [ks EXCEPT !.rshift = v]]
          [] b = 56 -> [handled |-> TRUE, ks |-> [ks EXCEPT !.lalt = v]]
          [] OTHER  -> [handled |-> FALSE,
                        ks |-> IF IS_SCANCODE_RELEASE(c)
                               THEN ks ELSE [ks EXCEPT !.lshift = FALSE]]

\* the first switch: press or release of lctrl, lshift, rshift, lalt
ModifierSwitch(c, ks) ==
    LET b == ClearBit(c, SCANCODE_RELEASE_FLAG)
        v == IF IS_SCANCODE_RELEASE(c) THEN FALSE ELSE TRUE
    IN  CASE b = 29 -> [handled |-> TRUE, ks |-> [ks EXCEPT !.lctrl = v]]
          [] b = 42 -> [handled |-> TRUE, ks |-> [ks EXCEPT !.lshift = v]]
          [] b = 54 -> [handled |-> TRUE, ks |-> [ks EXCEPT !.rshift = v]]
          [] b = 56 -> [handled |-> TRUE, ks |-> [ks EXCEPT !.lalt = v]]
          [] OTHER  -> [handled |-> FALSE, ks |-> ks]

\* the second switch with the case for 0x00 missing
ErrorOrAckNoZero(c) == c \in {170, 238, 250, 252, 253, 254, 255}

\* the second switch: errors and acks of the keyboard
ErrorOrAck(c) == c \in {0, 170, 238, 250, 252, 253, 254, 255}

\* the digit switch with '6' and '7' sharing one substitute
ShiftedDigitSlip(ch) ==
    CASE ch = 49 -> 33 [] ch = 50 -> 64 [] ch = 51 -> 35 [] ch = 52 -> 36
      [] ch = 53 -> 37 [] ch = 54 -> 38 [] ch = 55 -> 38 [] ch = 56 -> 42
      [] ch = 57 -> 40 [] ch = 48 -> 41
      [] OTHER -> -1

\* the third switch: special chars above numbers, us-std keymap;
\* -1 when no case matches and control falls out of the switch
ShiftedDigit(ch) ==
    CASE ch = 49 -> 33 [] ch = 50 -> 64 [] ch = 51 -> 35 [] ch = 52 -> 36
      [] ch = 53 -> 37 [] ch = 54 -> 94 [] ch = 55 -> 38 [] ch = 56 -> 42
      [] ch = 57 -> 40 [] ch = 48 -> 41
      [] OTHER -> -1

\* a shift test that forgets the right shift
ShiftHeldLeftOnly(ks) == ks.lshift

ShiftHeld(ks) == ks.lshift \/ ks.rshift

\* a translation that consults the left-ctrl latch (ctrl + letter gives the
\* control character)
MapKeycodeCtrl(c, ks, map) ==
    LET ch == map[c]
        d  == IF ShiftHeld(ks) /\ ch > 47 /\ ch < 58 THEN ShiftedDigit(ch) ELSE -1
    IN  IF ks.lctrl /\ ch < 123 /\ ch > 96 THEN ch - 96
        ELSE IF d # -1 THEN d
        ELSE IF ShiftHeld(ks) /\ ch < 123 /\ ch > 96 THEN vmm_toupper(ch)
        ELSE ch

\* the part of the function after both "handled" returns
MapKeycode(c, ks, map) ==
    LET ch == map[c]
        d  == IF ShiftHeld(ks) /\ ch > 47 /\ ch < 58 THEN ShiftedDigit(ch) ELSE -1
    IN  IF d # -1 THEN d
        ELSE IF ShiftHeld(ks) /\ ch < 123 /\ ch > 96 THEN vmm_toupper(ch)
        ELSE ch

\* the whole function: [ret, ks] = return value and keyboard_status after it
ScancodeToKeycode(c, ks, map) ==
    LET m == ModifierSwitch(c, ks)
    IN  IF m.handled THEN [ret |-> 0, ks |-> m.ks]
        ELSE IF IS_SCANCODE_RELEASE(c) THEN [ret |-> 0, ks |-> m.ks]
        ELSE IF ErrorOrAck(c) THEN [ret |-> 0, ks |-> m.ks]
        ELSE [ret |-> MapKeycode(c, m.ks, map), ks |-> m.ks]

-----------------------------------------------------------------------------
(* ULONG counters: TLC's integers are 32 bits wide and signed, so a ULONG is *)
(* kept as its two 16-bit halves << high, low >>                            *)

ULong(n) == << n \div 65536, n % 65536 >>

\* u - 1 modulo 2^32
ULongDec(u) ==
    IF u[2] > 0 THEN << u[1], u[2] - 1 >>
    ELSE IF u[1] > 0 THEN << u[1] - 1, 65535 >>
    ELSE << 65535, 65535 >>

ULongZero == << 0, 0 >>

-----------------------------------------------------------------------------
(* The hardware *)

\* what a read of the status register may return where the reader examines
\* it: every combination of the three bits i8042ReadKeyboardData tests
ReaderStatusBytes ==
    { a + c + d :
        a \in {0, KEYB_STATUS_OBUFFER_FULL},
        c \in {0, KEYB_STATUS_TRANSMIT_TIMEOUT}, d \in {0, KEYB_STATUS_PARITY_ERROR} }

\* and where the writer examines it: the one bit i8042WriteKeyboardData tests
WriterStatusBytes == {0, KEYB_STATUS_IBUFFER_FULL}

\* what a read of the data register may return: a key ('a') and a
\* modifier (left shift) press
ScanBytes == {30, 42}

-----------------------------------------------------------------------------
(* i8042ReadKeyboardData: port_status and data are what the two port reads *)
(* return; pc0 and mouse0 are *pc and *pisMouse before the call            *)

\* the mouse flag taken from the input-buffer-full bit
i8042ReadKeyboardDataFlagBit(port_status, data, pc0, mouse0) ==
    IF TestBit(port_status, KEYB_STATUS_OBUFFER_FULL)
    THEN IF ~TestBit(port_status, KEYB_STATUS_PARITY_ERROR)
         THEN [r |-> STATUS_SUCCESS, pc |-> data, dataRead |-> TRUE,
               reads |-> << KEYB_REGISTER_STATUS, KEYB_REGISTER_DATA >>,
               pisMouse |-> << TestBit(port_status, KEYB_STATUS_IBUFFER_FULL) >>]
         ELSE [r |-> STATUS_UNSUCCESSFUL, pc |-> data, dataRead |-> TRUE,
               reads |-> << KEYB_REGISTER_STATUS, KEYB_REGISTER_DATA >>,
               pisMouse |-> mouse0]
    ELSE [r |-> STATUS_UNSUCCESSFUL, pc |-> pc0, dataRead |-> FALSE,
          reads |-> << KEYB_REGISTER_STATUS >>, pisMouse |-> mouse0]

\* the validity check made before the data register is read: a byte with a
\* parity error is left in the controller
i8042ReadKeyboardDataCheckFirst(port_status, data, pc0, mouse0) ==
    IF /\ TestBit(port_status, KEYB_STATUS_OBUFFER_FULL)
       /\ ~TestBit(port_status, KEYB_STATUS_PARITY_ERROR)
    THEN [r |-> STATUS_SUCCESS, pc |-> data, dataRead |-> TRUE,
          reads |-> << KEYB_REGISTER_STATUS, KEYB_REGISTER_DATA >>,
          pisMouse |-> << TestBit(port_status, KEYB_STATUS_TRANSMIT_TIMEOUT) >>]
    ELSE [r |-> STATUS_UNSUCCESSFUL, pc |-> pc0, dataRead |-> FALSE,
          reads |-> << KEYB_REGISTER_STATUS >>, pisMouse |-> mouse0]

\* reads: the ports read, in order
i8042ReadKeyboardData(port_status, data, pc0, mouse0) ==
    IF TestBit(port_status, KEYB_STATUS_OBUFFER_FULL)
    THEN IF ~TestBit(port_status, KEYB_STATUS_PARITY_ERROR)
         THEN [r |-> STATUS_SUCCESS, pc |-> data, dataRead |-> TRUE,
               reads |-> << KEYB_REGISTER_STATUS, KEYB_REGISTER_DATA >>,
               pisMouse |-> << TestBit(port_status, KEYB_STATUS_TRANSMIT_TIMEOUT) >>]
         ELSE [r |-> STATUS_UNSUCCESSFUL, pc |-> data, dataRead |-> TRUE,
               reads |-> << KEYB_REGISTER_STATUS, KEYB_REGISTER_DATA >>,
               pisMouse |-> mouse0]
    ELSE [r |-> STATUS_UNSUCCESSFUL, pc |-> pc0, dataRead |-> FALSE,
          reads |-> << KEYB_REGISTER_STATUS >>, pisMouse |-> mouse0]

-----------------------------------------------------------------------------
(* i8042WriteKeyboardData *)

\* one evaluation of the while condition
\*   (KEYB_STATUS_IBUFFER_FULL & READ_PORT_UCHAR(status)) && (counter--)
\* cont: the body runs; cnt: counter afterwards (the decrement is evaluated
\* only when the left operand is true, and then even when counter is 0)
\* the same condition with a stall that does not use up the budget
WriteLoopTestNoDecrement(cnt, port_status) ==
    IF TestBit(port_status, KEYB_STATUS_IBUFFER_FULL)
    THEN [cont |-> cnt # ULongZero, cnt |-> cnt]
    ELSE [cont |-> FALSE, cnt |-> cnt]

WriteLoopTest(cnt, port_status) ==
    IF TestBit(port_status, KEYB_STATUS_IBUFFER_FULL)
    THEN [cont |-> cnt # ULongZero, cnt |-> ULongDec(cnt)]
    ELSE [cont |-> FALSE, cnt |-> cnt]

\* the write made only when the loop never stalled
WriteAllowedUnstalled(cnt) == cnt = ULong(POLL_STATUS_ITERATIONS)

\* if (counter) after the loop
WriteAllowed(cnt) == cnt # ULongZero

StartWrite(addr, data) ==
    /\ pc' = "wr_loop"
    /\ w' = [addr |-> addr, data |-> data]
    /\ wcounter' = ULong(POLL_STATUS_ITERATIONS)
    /\ wstalls' = 0
    /\ wAllFull' = TRUE
    /\ wrote' = FALSE
    /\ wok' = FALSE

NoWrite ==
    /\ w' = NoCall
    /\ wcounter' = ULongZero
    /\ wstalls' = 0
    /\ wAllFull' = TRUE
    /\ wrote' = FALSE
    /\ wok' = FALSE

\* one status read of the loop and what follows it up to the next status
\* read or the return statement
W_Iterate ==
    /\ pc = "wr_loop"
    /\ \E port_status \in WriterStatusBytes :
          LET t == WriteLoopTest(wcounter, port_status)
          IN  /\ wcounter' = t.cnt
              /\ wAllFull' = (wAllFull /\ TestBit(port_status, KEYB_STATUS_IBUFFER_FULL))
              /\ IF t.cont
                 THEN /\ wstalls' = wstalls + 1
                      /\ pc' = "wr_loop"
                      /\ UNCHANGED << wrote, wok, writes >>
                 ELSE /\ pc' = "wr_ret"
                      /\ wstalls' = wstalls
                      /\ IF WriteAllowed(t.cnt)
                         THEN /\ writes' = Append(writes, << w.addr, w.data >>)
                              /\ wrote' = TRUE
                              /\ wok' = TRUE
                         ELSE /\ wok' = FALSE
                              /\ UNCHANGED << wrote, writes >>
    /\ UNCHANGED << snap, keyboard_status, mapId, op, unget, enabled,
                    counter, scancode, pcOut, pisMouse, ret, attempts, stalls,
                    allEmpty, got, w, calls, arg_c, keycode, prev_status,
                    last_press >>

-----------------------------------------------------------------------------
(* Entering an exported operation: the caller's outputs and the histories   *)
(* of the previous operation are forgotten                                 *)

EnterCall(name) ==
    /\ pc = "idle"
    /\ op' = name
    /\ pcOut' = NoByte
    /\ pisMouse' = NoFlag
    /\ attempts' = 0
    /\ stalls' = 0
    /\ allEmpty' = TRUE
    /\ got' = NoRead
    /\ snap' = NoSnapshot
    /\ calls' = << >>
    /\ writes' = << >>
    /\ prev_status' = keyboard_status
    /\ arg_c' = NoByte
    /\ keycode' = NoByte
    /\ last_press' = NoPress

-----------------------------------------------------------------------------
(* KeyboardReadKeystroke *)

\* while (counter--) in place of while (counter)
RKContinueOffByOne(cnt) == cnt # ULongZero /\ cnt # ULong(1)

\* while (counter)
RKContinue(cnt) == cnt # ULongZero

\* the replay with the scancode sent before the write-output command
UngetSequenceSwapped(sc) ==
    << [addr |-> KEYB_REGISTER_COMMAND, data |-> KEYB_COMMAND_DISABLE_KEYBOARD],
       [addr |-> KEYB_REGISTER_DATA,    data |-> sc],
       [addr |-> KEYB_REGISTER_COMMAND, data |-> KEYB_COMMAND_WRITE_OUTPUT],
       [addr |-> KEYB_REGISTER_COMMAND, data |-> KEYB_COMMAND_ENABLE_KEYBOARD] >>

\* the four i8042WriteKeyboardData calls of "Echo back the scancode"
UngetSequence(sc) ==
    << [addr |-> KEYB_REGISTER_COMMAND, data |-> KEYB_COMMAND_DISABLE_KEYBOARD],
       [addr |-> KEYB_REGISTER_COMMAND, data |-> KEYB_COMMAND_WRITE_OUTPUT],
       [addr |-> KEYB_REGISTER_DATA,    data |-> sc],
       [addr |-> KEYB_REGISTER_COMMAND, data |-> KEYB_COMMAND_ENABLE_KEYBOARD] >>

CallReadKeystroke ==
    /\ EnterCall("KeyboardReadKeystroke")
    /\ ret' = Untouched
    /\ \E u \in BOOLEAN : unget' = u
    /\ pc' = "rk_loop"
    /\ counter' = ULong(POLL_STATUS_ITERATIONS)
    /\ scancode' = NoByte
    /\ NoWrite
    /\ enabled' = FALSE
    /\ UNCHANGED << keyboard_status, mapId >>

\* one pass of the polling loop. The status read of the loop body itself
\* (its value is never used) is left out: a status read changes nothing.
RK_Iterate ==
    /\ pc = "rk_loop"
    /\ RKContinue(counter)
    /\ \E port_status \in ReaderStatusBytes, data \in ScanBytes :
          LET rd == i8042ReadKeyboardData(port_status, data, scancode, pisMouse)
          IN  /\ attempts' = attempts + 1
              /\ scancode' = rd.pc
              /\ pisMouse' = rd.pisMouse
              /\ allEmpty' = (allEmpty /\ ~TestBit(port_status, KEYB_STATUS_OBUFFER_FULL))
              /\ IF rd.r = STATUS_SUCCESS
                 THEN /\ pc' = "rk_check"
                      /\ got' = [byte |-> data,
                                 mouse |-> TestBit(port_status, KEYB_STATUS_TRANSMIT_TIMEOUT)]
                      /\ UNCHANGED << counter, stalls >>
                 ELSE /\ stalls' = stalls + 1
                      /\ counter' = ULongDec(counter)
                      /\ pc' = "rk_loop"
                      /\ got' = got
    /\ UNCHANGED << snap, keyboard_status, mapId, op, unget, enabled,
                    pcOut, ret, w, wcounter, wstalls, wAllFull, wrote, wok,
                    calls, writes, arg_c, keycode, prev_status, last_press >>

\* the loop condition fails
RK_LoopExit ==
    /\ pc = "rk_loop"
    /\ ~RKContinue(counter)
    /\ pc' = "rk_check"
    /\ UNCHANGED << snap, keyboard_status, mapId, op, unget, enabled,
                    counter, scancode, pcOut, pisMouse, ret, attempts, stalls,
                    allEmpty, got, w, wcounter, wstalls, wAllFull, wrote, wok,
                    calls, writes, arg_c, keycode, prev_status, last_press >>

\* the replay made whether or not unget was requested
RK_AfterLoopAlwaysReplay ==
    /\ pc = "rk_check"
    /\ IF counter = ULongZero
       THEN /\ ret' = STATUS_UNSUCCESSFUL
            /\ pc' = "idle"
            /\ UNCHANGED << counter, pcOut, attempts, stalls, w, wcounter,
                            wstalls, wAllFull, wrote, wok >>
       ELSE /\ StartWrite(UngetSequence(scancode)[1].addr,
                          UngetSequence(scancode)[1].data)
            /\ counter' = ULongZero
            /\ attempts' = 0
            /\ stalls' = 0
            /\ UNCHANGED << ret, pcOut >>
    /\ UNCHANGED << snap, keyboard_status, mapId, op, unget, enabled,
                    scancode, pisMouse, allEmpty, got, calls, writes, arg_c,
                    keycode, prev_status, last_press >>

\* after the loop: the timeout return, the first replay write, or the
\* plain successful return. The loop's counters are dead once the replay starts.
RK_AfterLoop ==
    /\ pc = "rk_check"
    /\ IF counter = ULongZero
       THEN /\ ret' = STATUS_UNSUCCESSFUL
            /\ pc' = "idle"
            /\ UNCHANGED << counter, pcOut, attempts, stalls, w, wcounter,
                            wstalls, wAllFull, wrote, wok >>
       ELSE IF unget
       THEN /\ StartWrite(UngetSequence(scancode)[1].addr,
                          UngetSequence(scancode)[1].data)
            /\ counter' = ULongZero
            /\ attempts' = 0
            /\ stalls' = 0
            /\ UNCHANGED << ret, pcOut >>
       ELSE /\ pcOut' = scancode
            /\ ret' = STATUS_SUCCESS
            /\ pc' = "idle"
            /\ counter' = ULongZero
            /\ attempts' = 0
            /\ stalls' = 0
            /\ UNCHANGED << w, wcounter, wstalls, wAllFull, wrote, wok >>
    /\ UNCHANGED << snap, keyboard_status, mapId, op, unget, enabled,
                    scancode, pisMouse, allEmpty, got, calls, writes, arg_c,
                    keycode, prev_status, last_press >>

-----------------------------------------------------------------------------
(* KeyboardSetMouse *)

\* the two commands exchanged
MouseCommandSwapped(en) ==
    IF en THEN KEYB_COMMAND_DISABLE_MOUSE ELSE KEYB_COMMAND_ENABLE_MOUSE

\* cmd = enabled ? KEYB_COMMAND_ENABLE_MOUSE : KEYB_COMMAND_DISABLE_MOUSE
MouseCommand(en) ==
    IF en THEN KEYB_COMMAND_ENABLE_MOUSE ELSE KEYB_COMMAND_DISABLE_MOUSE

CallSetMouse ==
    /\ EnterCall("KeyboardSetMouse")
    /\ ret' = Untouched
    /\ \E en \in BOOLEAN :
          /\ enabled' = en
          /\ StartWrite(KEYB_REGISTER_COMMAND, MouseCommand(en))
    /\ unget' = FALSE
    /\ counter' = ULongZero
    /\ scancode' = NoByte
    /\ UNCHANGED << keyboard_status, mapId >>

-----------------------------------------------------------------------------
(* Return of i8042WriteKeyboardData into its caller, which ignores the      *)
(* returned BOOLEAN and goes on with its next statement                    *)

W_Return ==
    /\ pc = "wr_ret"
    /\ calls' = Append(calls, [addr |-> w.addr, data |-> w.data, ok |-> wok])
    /\ IF op = "KeyboardReadKeystroke" /\ Len(calls) + 1 < Len(UngetSequence(scancode))
       THEN /\ StartWrite(UngetSequence(scancode)[Len(calls) + 2].addr,
                          UngetSequence(scancode)[Len(calls) + 2].data)
            /\ UNCHANGED << ret, pcOut >>
       ELSE /\ NoWrite
            /\ pc' = "idle"
            /\ ret' = STATUS_SUCCESS
            /\ pcOut' = IF op = "KeyboardReadKeystroke" THEN scancode ELSE pcOut
    /\ UNCHANGED << snap, keyboard_status, mapId, op, unget, enabled,
                    counter, scancode, pisMouse, attempts, stalls, allEmpty,
                    got, writes, arg_c, keycode, prev_status, last_press >>

-----------------------------------------------------------------------------
(* KeyboardInit *)

\* init_scancodes_map (scancode.c): loads the table and, KeyboardInit having
\* no other statement, is where Init establishes the modifier state
init_scancodes_map(id, ks) == [id |-> id, ks |-> NoLatch]

\* KeyboardInit returning without the call
KeyboardInitNoCall(id, ks) ==
    [ret |-> STATUS_SUCCESS, id |-> id, ks |-> ks]

\* init_scancodes_map(); return STATUS_SUCCESS;
KeyboardInit(id, ks) ==
    LET i == init_scancodes_map(id, ks)
    IN  [ret |-> STATUS_SUCCESS, id |-> i.id, ks |-> i.ks]

CallKeyboardInit ==
    /\ EnterCall("KeyboardInit")
    /\ LET r == KeyboardInit(mapId, keyboard_status)
       IN  /\ mapId' = r.id
           /\ keyboard_status' = r.ks
           /\ ret' = r.ret
    /\ pc' = "idle"
    /\ unget' = FALSE
    /\ enabled' = FALSE
    /\ counter' = ULongZero
    /\ scancode' = NoByte
    /\ NoWrite

-----------------------------------------------------------------------------
(* A call of KeyboardScancodeToKeycode *)

ModifierPresses == {29, 42, 54, 56}

Translate(c) ==
    /\ pc = "idle"
    /\ LET r == ScancodeToKeycode(c, keyboard_status, scancodes_map)
       IN  /\ keyboard_status' = r.ks
           /\ keycode' = r.ret
    /\ arg_c' = c
    /\ op' = "KeyboardScancodeToKeycode"
    /\ prev_status' = keyboard_status
    /\ last_press' = IF /\ op = "KeyboardScancodeToKeycode"
                        /\ arg_c \in ModifierPresses
                        /\ c = arg_c + SCANCODE_RELEASE_FLAG
                     THEN [c |-> arg_c, ret |-> keycode]
                     ELSE NoPress
    /\ pc' = "idle"
    /\ ret' = Untouched
    /\ pcOut' = NoByte
    /\ pisMouse' = NoFlag
    /\ attempts' = 0
    /\ stalls' = 0
    /\ allEmpty' = TRUE
    /\ got' = NoRead
    /\ snap' = NoSnapshot
    /\ calls' = << >>
    /\ writes' = << >>
    /\ unget' = FALSE
    /\ enabled' = FALSE
    /\ counter' = ULongZero
    /\ scancode' = NoByte
    /\ NoWrite
    /\ UNCHANGED mapId

\* the translator fed any byte
TranslateAny == \E c \in Byte : Translate(c)

\* the caller feeds the byte KeyboardReadKeystroke delivered
TranslateDelivered ==
    /\ op = "KeyboardReadKeystroke"
    /\ ret = STATUS_SUCCESS
    /\ Translate(pcOut)

-----------------------------------------------------------------------------
(* A call of i8042ReadKeyboardData on its own: the status and the data      *)
(* register return any byte, the caller's flag holds anything beforehand    *)

FlagContents == {NoFlag, << FALSE >>, << TRUE >>}

ReaderCall ==
    /\ pc = "idle"
    /\ \E port_status \in Byte, data \in Byte, mouse0 \in FlagContents :
          LET o == i8042ReadKeyboardData(port_status, data, NoByte, mouse0)
          IN  /\ scancode' = o.pc
              /\ pisMouse' = o.pisMouse
              /\ ret' = o.r
              /\ snap' = [status |-> port_status, data |-> data,
                          mouse0 |-> mouse0, reads |-> o.reads]
    /\ op' = "i8042ReadKeyboardData"
    /\ pc' = "rd_ret"
    /\ UNCHANGED << keyboard_status, mapId, unget, enabled, counter, pcOut,
                    attempts, stalls, allEmpty, got, w, wcounter, wstalls,
                    wAllFull, wrote, wok, calls, writes, arg_c, keycode,
                    prev_status, last_press >>

\* the caller's two buffers go out of scope
ReaderReturn ==
    /\ pc = "rd_ret"
    /\ pc' = "idle"
    /\ scancode' = NoByte
    /\ pisMouse' = NoFlag
    /\ ret' = Untouched
    /\ snap' = NoSnapshot
    /\ UNCHANGED << keyboard_status, mapId, op, unget, enabled, counter, pcOut,
                    attempts, stalls, allEmpty, got, w, wcounter, wstalls,
                    wAllFull, wrote, wok, calls, writes, arg_c, keycode,
                    prev_status, last_press >>

-----------------------------------------------------------------------------
(* The specifications *)

\* after the driver's entry has called KeyboardInit: the table is loaded,
\* the global keyboard_status is all FALSE, nothing is in progress
InitWith(ids) ==
    /\ mapId \in ids
    /\ keyboard_status = NoLatch
    /\ pc = "idle"
    /\ op = "KeyboardInit"
    /\ unget = FALSE
    /\ enabled = FALSE
    /\ counter = ULongZero
    /\ scancode = NoByte
    /\ pcOut = NoByte
    /\ pisMouse = NoFlag
    /\ ret = STATUS_SUCCESS
    /\ attempts = 0
    /\ stalls = 0
    /\ allEmpty = TRUE
    /\ got = NoRead
    /\ snap = NoSnapshot
    /\ w = NoCall
    /\ wcounter = ULongZero
    /\ wstalls = 0
    /\ wAllFull = TRUE
    /\ wrote = FALSE
    /\ wok = FALSE
    /\ calls = << >>
    /\ writes = << >>
    /\ arg_c = NoByte
    /\ keycode = NoByte
    /\ prev_status = NoLatch
    /\ last_press = NoPress

Init == InitWith({1})

Next ==
    \/ CallReadKeystroke
    \/ RK_Iterate
    \/ RK_LoopExit
    \/ RK_AfterLoop
    \/ CallSetMouse
    \/ W_Iterate
    \/ W_Return
    \/ CallKeyboardInit
    \/ TranslateDelivered

Spec == Init /\ [][Next]_vars

InitXlate == InitWith(1..NumMaps)

NextXlate ==
    \/ TranslateAny
    \/ CallKeyboardInit

SpecXlate == InitXlate /\ [][NextXlate]_vars

NextReader ==
    \/ ReaderCall
    \/ ReaderReturn

SpecReader == Init /\ [][NextReader]_vars

-----------------------------------------------------------------------------
(* Properties of the port-level program (Spec) *)

\* C1: when output-buffer-full is clear on every poll of a
\* KeyboardReadKeystroke call, the loop ends with the counter at 0 after
\* exactly 12000 failed reader attempts and 12000 stalls, one per attempt,
\* and the call returns STATUS_UNSUCCESSFUL.
C1_PollTimeout ==
    /\ (pc = "rk_loop" /\ allEmpty) => (attempts = stalls /\ attempts <= 12000)
    /\ (pc = "rk_check" /\ allEmpty) =>
          (counter = ULongZero /\ attempts = 12000 /\ stalls = 12000)
    /\ (pc = "idle" /\ op = "KeyboardReadKeystroke" /\ allEmpty) =>
          (ret = STATUS_UNSUCCESSFUL /\ attempts = 12000 /\ stalls = 12000)

C1_Witness ==
    /\ pc = "idle"
    /\ op = "KeyboardReadKeystroke"
    /\ allEmpty
    /\ ret = STATUS_UNSUCCESSFUL
    /\ attempts = 12000
    /\ stalls = 12000

\* C2: when input-buffer-full is set on every status read of an
\* i8042WriteKeyboardData call, the call returns FALSE after exactly 12000
\* stalls and has written nothing to the target register.
C2_WriteTimeoutFails ==
    (pc = "wr_ret" /\ wAllFull) =>
        (wok = FALSE /\ wstalls = 12000 /\ ~wrote /\ writes = << >>)

\* C9: KeyboardSetMouse makes exactly one i8042WriteKeyboardData call, to
\* the command port, with 0xa8 when enabled and 0xa7 when not, and returns
\* STATUS_SUCCESS whether that call returned TRUE or FALSE.
C9_SetMouse ==
    op = "KeyboardSetMouse" =>
        LET cmd == IF enabled THEN 168 ELSE 167
        IN  IF pc = "idle"
            THEN /\ ret = STATUS_SUCCESS
                 /\ Len(calls) = 1
                 /\ calls[1].addr = 100
                 /\ calls[1].data = cmd
            ELSE /\ calls = << >>
                 /\ w = [addr |-> 100, data |-> cmd]

C9_Witness ==
    /\ pc = "idle"
    /\ op = "KeyboardSetMouse"
    /\ enabled
    /\ Len(calls) = 1
    /\ calls[1].ok = FALSE
    /\ writes = << >>
    /\ ret = STATUS_SUCCESS

\* the replay the unget path is to attempt for a byte: 0xad and 0xd2 to the
\* command port (0x64), the byte to the data port (0x60), 0xae to the
\* command port
ExpectedReplay(byte) == << << 100, 173 >>, << 100, 210 >>, << 96, byte >>, << 100, 174 >> >>

\* C10: once a byte has been read, KeyboardReadKeystroke with unget attempts
\* the four writes of the replay in order, each whatever the earlier ones
\* returned, and then returns STATUS_SUCCESS with the byte and the mouse
\* flag of the successful read, as it does without unget.
C10_UngetReplay ==
    /\ (op = "KeyboardReadKeystroke" /\ pc \in {"wr_loop", "wr_ret"}) =>
          /\ unget
          /\ Len(calls) < 4
          /\ \A i \in 1..Len(calls) :
                << calls[i].addr, calls[i].data >> = ExpectedReplay(got.byte)[i]
          /\ << w.addr, w.data >> = ExpectedReplay(got.byte)[Len(calls) + 1]
    /\ (op = "KeyboardReadKeystroke" /\ pc = "idle" /\ ret = STATUS_SUCCESS) =>
          /\ pcOut = got.byte
          /\ pisMouse = << got.mouse >>
          /\ unget =>
                /\ Len(calls) = 4
                /\ \A i \in 1..4 :
                      << calls[i].addr, calls[i].data >> = ExpectedReplay(got.byte)[i]
    /\ (op = "KeyboardReadKeystroke" /\ pc = "idle" /\ unget) =>
          (ret = STATUS_SUCCESS <=> got # NoRead)

C10_Witness ==
    /\ op = "KeyboardReadKeystroke"
    /\ pc = "idle"
    /\ unget
    /\ ret = STATUS_SUCCESS
    /\ Len(calls) = 4
    /\ calls[1].ok = FALSE
    /\ calls[2].ok = TRUE
    /\ calls[3].ok = FALSE
    /\ calls[4].ok = TRUE
    /\ got = [byte |-> 42, mouse |-> TRUE]
    /\ pcOut = 42
    /\ pisMouse = << TRUE >>

-----------------------------------------------------------------------------
(* Properties of the translator (SpecXlate) *)

Translated == op = "KeyboardScancodeToKeycode"

BaseCode(c) == c % 128

HasReleaseBit(c) == c >= 128

LatchOf(b) ==
    CASE b = 29 -> "lctrl" [] b = 42 -> "lshift" [] b = 54 -> "rshift" [] b = 56 -> "lalt"

ControllerBytes == {0, 170, 238, 250, 252, 253, 254, 255}

\* a key-down byte that is neither a modifier nor a controller status byte
KeyDown(c) ==
    /\ ~HasReleaseBit(c)
    /\ BaseCode(c) \notin ModifierPresses
    /\ c \notin ControllerBytes

ShiftLatched(ks) == ks.lshift \/ ks.rshift

\* 1->! 2->@ 3-># 4->$ 5->% 6->^ 7->& 8->* 9->( 0->)
DigitSubstitute(ch) ==
    CASE ch = 49 -> 33 [] ch = 50 -> 64 [] ch = 51 -> 35 [] ch = 52 -> 36
      [] ch = 53 -> 37 [] ch = 54 -> 94 [] ch = 55 -> 38 [] ch = 56 -> 42
      [] ch = 57 -> 40 [] ch = 48 -> 41

\* C3: for a byte whose base code is 0x1d, 0x2a, 0x36 or 0x38 the translator
\* returns 0, sets that modifier's latch to "release bit absent" and leaves
\* the other three latches as they were; and a press followed by the release
\* of the same modifier leaves its latch false, both calls returning 0.
C3_ModifierLatch ==
    (Translated /\ BaseCode(arg_c) \in ModifierPresses) =>
        /\ keycode = 0
        /\ keyboard_status =
              [prev_status EXCEPT ![LatchOf(BaseCode(arg_c))] = ~HasReleaseBit(arg_c)]
        /\ last_press # NoPress =>
              /\ arg_c = last_press.c + 128
              /\ last_press.ret = 0
              /\ prev_status[LatchOf(last_press.c)] = TRUE
              /\ keyboard_status[LatchOf(last_press.c)] = FALSE

C3_Witness ==
    /\ Translated
    /\ arg_c = 182
    /\ last_press = [c |-> 54, ret |-> 0]
    /\ prev_status = [lctrl |-> TRUE, lshift |-> TRUE, rshift |-> TRUE, lalt |-> FALSE]
    /\ keyboard_status = [lctrl |-> TRUE, lshift |-> TRUE, rshift |-> FALSE, lalt |-> FALSE]
    /\ keycode = 0

\* C4: a byte whose base code is not 0x1d, 0x2a, 0x36 or 0x38 changes none
\* of the four latches, and when its release bit is set the translator
\* returns 0.
C4_NonModifierFrame ==
    (Translated /\ BaseCode(arg_c) \notin ModifierPresses) =>
        /\ keyboard_status = prev_status
        /\ HasReleaseBit(arg_c) => keycode = 0

C4_Witness ==
    /\ Translated
    /\ arg_c = 158
    /\ prev_status = [lctrl |-> TRUE, lshift |-> TRUE, rshift |-> TRUE, lalt |-> TRUE]
    /\ keyboard_status = prev_status
    /\ keycode = 0

\* C5: for a key-down byte whose table entry is a digit character
\* (0x2f < baseChar < 0x3a), the result is the fixed substitute when
\* leftShift or rightShift is latched, and baseChar itself when neither is.
C5_ShiftedDigits ==
    (Translated /\ KeyDown(arg_c)
       /\ scancodes_map[arg_c] > 47 /\ scancodes_map[arg_c] < 58) =>
        keycode = IF ShiftLatched(prev_status)
                  THEN DigitSubstitute(scancodes_map[arg_c])
                  ELSE scancodes_map[arg_c]

C5_Witness ==
    /\ Translated
    /\ mapId = 1
    /\ arg_c = 7
    /\ prev_status.lshift
    /\ ~prev_status.rshift
    /\ keycode = 94

\* C6: for a key-down byte, with a shift latched and a lowercase table entry
\* (0x60 < baseChar < 0x7b) the result is the uppercase letter; outside the
\* digit rule and the letter rule the result is baseChar unchanged, 0 for an
\* unmapped scancode.
C6_ShiftedLetters ==
    (Translated /\ KeyDown(arg_c)) =>
        LET ch == scancodes_map[arg_c]
            digitRule  == ShiftLatched(prev_status) /\ ch > 47 /\ ch < 58
            letterRule == ShiftLatched(prev_status) /\ ch > 96 /\ ch < 123
        IN  /\ letterRule => keycode = ch - 32
            /\ (~digitRule /\ ~letterRule) => keycode = ch
            /\ (ch = 0) => keycode = 0

C6_Witness ==
    /\ Translated
    /\ mapId = 1
    /\ arg_c = 30
    /\ prev_status.rshift
    /\ ~prev_status.lshift
    /\ keycode = 65

\* C7: the translator returns 0 for each of the bytes 0x00, 0xaa, 0xee,
\* 0xfa, 0xfc, 0xfd, 0xfe, 0xff, whatever the latches and the table hold.
C7_ControllerBytes ==
    (Translated /\ arg_c \in ControllerBytes) => keycode = 0

C7_Witness ==
    /\ Translated
    /\ arg_c = 0
    /\ scancodes_map[0] # 0
    /\ prev_status = [lctrl |-> TRUE, lshift |-> TRUE, rshift |-> TRUE, lalt |-> TRUE]
    /\ keycode = 0

LatchStates == [lctrl : BOOLEAN, lshift : BOOLEAN, rshift : BOOLEAN, lalt : BOOLEAN]

\* C11: leftCtrl and leftAlt never influence translation: started from any
\* latch state that agrees with the actual one on leftShift and rightShift,
\* the translator returns the same value for the same byte and table and
\* ends with the same leftShift and rightShift latches.
C11_CtrlAltNotConsulted ==
    Translated =>
        \A ks2 \in LatchStates :
            (ks2.lshift = prev_status.lshift /\ ks2.rshift = prev_status.rshift) =>
                LET r2 == ScancodeToKeycode(arg_c, ks2, scancodes_map)
                IN  /\ r2.ret = keycode
                    /\ r2.ks.lshift = keyboard_status.lshift
                    /\ r2.ks.rshift = keyboard_status.rshift

C11_Witness ==
    /\ Translated
    /\ mapId = 1
    /\ arg_c = 30
    /\ prev_status = [lctrl |-> TRUE, lshift |-> FALSE, rshift |-> FALSE, lalt |-> TRUE]
    /\ keyboard_status = prev_status
    /\ keycode = 97

-----------------------------------------------------------------------------
\* C12: every blocking operation terminates whatever the status register
\* reports. A step that stays in the write loop is one more stall, uses up
\* one unit of the budget and never makes a 12001st stall; a step that stays
\* in the polling loop of KeyboardReadKeystroke is one more failed reader
\* attempt out of at most 12000; the loops are left only forwards (to the
\* return of the write, to the check after the polling), and an operation
\* makes at most four calls of i8042WriteKeyboardData before it returns.
C12_BoundedBlocking ==
    [][ /\ (pc = "wr_loop" /\ pc' = "wr_loop") =>
              /\ wstalls' = wstalls + 1
              /\ wcounter' = ULongDec(wcounter)
              /\ wcounter # ULongZero
        /\ pc = "wr_loop" => pc' \in {"wr_loop", "wr_ret"}
        /\ wstalls' <= POLL_STATUS_ITERATIONS
        /\ (pc = "rk_loop" /\ pc' = "rk_loop") =>
              /\ attempts' = attempts + 1
              /\ counter' = ULongDec(counter)
              /\ counter # ULongZero
        /\ pc = "rk_loop" => pc' \in {"rk_loop", "rk_check"}
        /\ attempts' <= POLL_STATUS_ITERATIONS
        /\ pc = "rk_check" => (calls = << >> /\ pc' \in {"idle", "wr_loop"})
        /\ pc = "wr_ret" =>
              /\ Len(calls') = Len(calls) + 1
              /\ pc' \in {"idle", "wr_loop"}
        /\ Len(calls') <= Len(UngetSequence(0))
        /\ (pc # "idle" /\ pc' = "idle") =>
              ret' \in {STATUS_SUCCESS, STATUS_UNSUCCESSFUL}
      ]_vars

\* the last write of a replay returning after 12000 stalls with
\* input-buffer-full set at every status read
C12_Witness ==
    /\ op = "KeyboardReadKeystroke"
    /\ pc = "wr_ret"
    /\ Len(calls) = 3
    /\ wAllFull
    /\ wstalls = POLL_STATUS_ITERATIONS

-----------------------------------------------------------------------------
\* bit n of a byte, as the claims number them
Bit(b, n) == (b \div (2 ^ n)) % 2 = 1

\* C13: i8042ReadKeyboardData reads the status register exactly once, and
\* the data register if and only if bit 0 of that snapshot is set, bit 7
\* set or not (a parity-error byte is consumed and discarded); it returns
\* success if and only if bit 0 is set and bit 7 is clear; on success the
\* mouse flag is bit 5 of the snapshot and the byte is the data register's;
\* on failure the mouse flag output is as it was before the call.
C13_ReaderContract ==
    pc = "rd_ret" =>
        /\ snap.reads = IF Bit(snap.status, 0)
                        THEN << KEYB_REGISTER_STATUS, KEYB_REGISTER_DATA >>
                        ELSE << KEYB_REGISTER_STATUS >>
        /\ ret \in {STATUS_SUCCESS, STATUS_UNSUCCESSFUL}
        /\ (ret = STATUS_SUCCESS) <=> (Bit(snap.status, 0) /\ ~Bit(snap.status, 7))
        /\ ret = STATUS_SUCCESS =>
              /\ pisMouse = << Bit(snap.status, 5) >>
              /\ scancode = snap.data
        /\ ret = STATUS_UNSUCCESSFUL => pisMouse = snap.mouse0

\* a byte with a parity error (status 0xa1), read from the data register and
\* reported as a failure with the flag not written
C13_Witness ==
    /\ pc = "rd_ret"
    /\ snap.status = 161
    /\ snap.data = 30
    /\ snap.mouse0 = NoFlag
    /\ snap.reads = << KEYB_REGISTER_STATUS, KEYB_REGISTER_DATA >>
    /\ ret = STATUS_UNSUCCESSFUL
    /\ pisMouse = NoFlag

-----------------------------------------------------------------------------
\* C14: KeyboardReadKeystroke returns success if and only if one of its at
\* most 12000 reader attempts succeeds, the 12000th included. While it
\* polls no attempt has succeeded and every attempt made was followed by a
\* stall; it leaves the loop at the first successful attempt, after one
\* stall per failed attempt before it, or after 12000 failures; on success
\* it returns that attempt's data byte and mouse flag.
C14_FirstSuccess ==
    op = "KeyboardReadKeystroke" =>
        /\ pc = "rk_loop" =>
              (got = NoRead /\ stalls = attempts /\ attempts <= 12000)
        /\ pc = "rk_check" =>
              IF got = NoRead
              THEN attempts = 12000 /\ stalls = 12000
              ELSE /\ attempts = stalls + 1
                   /\ attempts <= 12000
                   /\ scancode = got.byte
                   /\ pisMouse = << got.mouse >>
        /\ pc \in {"wr_loop", "wr_ret"} => got # NoRead
        /\ pc = "idle" =>
              /\ ret \in {STATUS_SUCCESS, STATUS_UNSUCCESSFUL}
              /\ (ret = STATUS_SUCCESS) <=> (got # NoRead)
              /\ ret = STATUS_SUCCESS =>
                    (pcOut = got.byte /\ pisMouse = << got.mouse >>)

\* the first success on the 12000th attempt, after 11999 stalls
C14_Witness ==
    /\ op = "KeyboardReadKeystroke"
    /\ pc = "rk_check"
    /\ got = [byte |-> 30, mouse |-> TRUE]
    /\ attempts = 12000
    /\ stalls = 11999
    /\ counter = ULong(1)

-----------------------------------------------------------------------------
\* the bytes of the four modifiers, presses and releases
ModifierBytes == {29, 42, 54, 56, 157, 170, 182, 184}

\* a KeyboardScancodeToKeycode step on a modifier byte
ModifierTranslation == Translated /\ arg_c \in ModifierBytes

-----------------------------------------------------------------------------
\* C16: i8042WriteKeyboardData writes to a port at most once per call, in
\* the step that ends its loop; what it writes is the given byte to the
\* given register; it returns TRUE exactly when it made that write, and the
\* caller receives that value; and when a status read made after fewer than
\* 12000 stalls shows input-buffer-full clear, that step makes the write
\* and returns TRUE without another stall. While the loop goes on, every
\* status read so far showed input-buffer-full set and nothing is written.
C16_WriteOnce ==
    [][ /\ (pc # "idle" /\ writes' # writes) =>
              /\ pc = "wr_loop"
              /\ pc' = "wr_ret"
              /\ writes' = Append(writes, << w.addr, w.data >>)
        /\ (pc = "wr_loop" /\ pc' = "wr_ret") =>
              /\ w' = w
              /\ wstalls' = wstalls
              /\ wok' = (writes' # writes)
              /\ wrote' = wok'
              /\ (~wAllFull' /\ wstalls < 12000) => wok'
        /\ (pc = "wr_loop" /\ pc' = "wr_loop") =>
              /\ wAllFull'
              /\ w' = w
              /\ ~wrote'
              /\ writes' = writes
        /\ pc = "wr_ret" =>
              calls' = Append(calls, [addr |-> w.addr, data |-> w.data, ok |-> wok])
      ]_vars

\* input-buffer-full clear on the read after the 11999th stall: the byte is
\* written and TRUE returned
C16_Witness ==
    /\ pc = "wr_ret"
    /\ ~wAllFull
    /\ wstalls = 11999
    /\ wcounter = ULong(1)
    /\ wok
    /\ wrote
    /\ writes # << >>
    /\ writes[Len(writes)] = << w.addr, w.data >>

-----------------------------------------------------------------------------
\* C17: translating one of the bytes 0x00, 0xaa, 0xee, 0xfa, 0xfc, 0xfd,
\* 0xfe, 0xff returns 0 and leaves all four latches as they were, from every
\* latch state.
C17_PureIgnore ==
    (Translated /\ arg_c \in ControllerBytes) =>
        (keycode = 0 /\ keyboard_status = prev_status)

-----------------------------------------------------------------------------
\* C18: KeyboardReadKeystroke calls the write routine, and so writes to a
\* port, only when unget was requested and a reader attempt has succeeded;
\* when it returns the timeout failure it has written to no port and the
\* caller's output byte is as it was; the output byte is written only by
\* the successful return and then holds the byte of the successful attempt,
\* never one that was read with a parity error.
C18_WritesOnlyOnUnget ==
    op = "KeyboardReadKeystroke" =>
        /\ (writes # << >> \/ calls # << >> \/ pc \in {"wr_loop", "wr_ret"}) =>
              (unget /\ got # NoRead)
        /\ (pc = "idle" /\ ret = STATUS_UNSUCCESSFUL) =>
              (writes = << >> /\ calls = << >> /\ pcOut = NoByte)
        /\ pcOut # NoByte =>
              (pc = "idle" /\ ret = STATUS_SUCCESS /\ pcOut = got.byte)

\* a timeout with unget requested, during which a byte with a parity error
\* was read into the local scancode
C18_Witness ==
    /\ op = "KeyboardReadKeystroke"
    /\ pc = "idle"
    /\ ret = STATUS_UNSUCCESSFUL
    /\ unget
    /\ scancode = 42
    /\ ~allEmpty
    /\ pcOut = NoByte
    /\ writes = << >>

=============================================================================
